---- MODULE Spec2Model ----
(***************************************************************************)
(* A model of package timespan (toolman.org/time/timespan): ParseTimespan, *)
(* its coefficient accumulator, its magnitude registry and the renderer    *)
(* Timespan.String.  A Go string is a sequence of one-character strings;   *)
(* Go's 0-based byte offset i is the 1-based index i+1 (the inputs of the  *)
(* model are ASCII, so runes and bytes coincide).                          *)
(***************************************************************************)
EXTENDS Integers, Sequences, FiniteSets, TLC

(***************************************************************************)
(* Bounds of the model.                                                    *)
(***************************************************************************)
\* The inputs are the strings over Alphabet of at most MaxLen characters,
MaxLen == 4
\* the concatenations of at most MaxTerms terms (sign? digit letter-or-unit),
MaxTerms == 2
\* and the concatenations of at most MaxPeriods periods (sign? digit letter).
MaxPeriods == 3

(***************************************************************************)
(* Characters and decimal numerals.                                        *)
(***************************************************************************)
DigitChars == {"0", "1", "2", "3", "4", "5", "6", "7", "8", "9"}

DigitVal(c) ==
  CASE c = "0" -> 0 [] c = "1" -> 1 [] c = "2" -> 2 [] c = "3" -> 3
    [] c = "4" -> 4 [] c = "5" -> 5 [] c = "6" -> 6 [] c = "7" -> 7
    [] c = "8" -> 8 [] c = "9" -> 9

DigitChar(n) ==
  CASE n = 0 -> "0" [] n = 1 -> "1" [] n = 2 -> "2" [] n = 3 -> "3"
    [] n = 4 -> "4" [] n = 5 -> "5" [] n = 6 -> "6" [] n = 7 -> "7"
    [] n = 8 -> "8" [] n = 9 -> "9"

\* s[i:] of Go, for a 0-based offset i.
Suffix(str, i) == SubSeq(str, i + 1, Len(str))

\* The value of a sequence of decimal digits (most significant first).
RECURSIVE DigitsValue(_)
DigitsValue(ds) ==
  IF ds = <<>> THEN 0
  ELSE 10 * DigitsValue(SubSeq(ds, 1, Len(ds) - 1)) + DigitVal(ds[Len(ds)])

\* The decimal digits of n >= 0, as fmt's %d writes them.
RECURSIVE NatToStr(_)
NatToStr(n) ==
  IF n < 10 THEN <<DigitChar(n)>>
  ELSE NatToStr(n \div 10) \o <<DigitChar(n % 10)>>

\* fmt.Sprintf("%d", n)
IntToStr(n) == IF n < 0 THEN <<"-">> \o NatToStr(0 - n) ELSE NatToStr(n)

\* The number of leading characters of str that are decimal digits.
RECURSIVE LeadingDigits(_)
LeadingDigits(str) ==
  IF str = <<>> \/ str[1] \notin DigitChars THEN 0
  ELSE 1 + LeadingDigits(Tail(str))

RECURSIVE StripZeros(_)
StripZeros(ds) ==
  IF ds # <<>> /\ ds[1] = "0" THEN StripZeros(Tail(ds)) ELSE ds

\* a <= b for two digit sequences without leading zeros.
RECURSIVE DigitsLE(_, _)
DigitsLE(a, b) ==
  IF Len(a) # Len(b) THEN Len(a) < Len(b)
  ELSE IF a = <<>> THEN TRUE
  ELSE IF a[1] # b[1] THEN DigitVal(a[1]) < DigitVal(b[1])
  ELSE DigitsLE(Tail(a), Tail(b))

RECURSIVE Pow10(_)
Pow10(k) == IF k = 0 THEN 1 ELSE 10 * Pow10(k - 1)

(***************************************************************************)
(* time.Duration.  A Duration is a signed 64-bit count of nanoseconds; an  *)
(* hour is 3.6e12 of them, beyond the integers of the checker, so a        *)
(* Duration is kept as sign and magnitude, the magnitude split into whole  *)
(* hours, seconds within the hour and nanoseconds within the second.  The  *)
(* split is exact: two Durations are equal exactly when their records are. *)
(***************************************************************************)
NsPerSec == Pow10(9)

Mag(h, s, ns) == [h |-> h, s |-> s, ns |-> ns]

ZeroMag == Mag(0, 0, 0)

\* 1<<63 nanoseconds = 2562047h 2836s 854775808ns
MaxMag == Mag(2562047, 2836, 854775808)

MagLE(a, b) ==
  \/ a.h < b.h
  \/ a.h = b.h /\ a.s < b.s
  \/ a.h = b.h /\ a.s = b.s /\ a.ns <= b.ns

MagNorm(h, s, ns) ==
  LET secs == s + (ns \div NsPerSec)
  IN  Mag(h + (secs \div 3600), secs % 3600, ns % NsPerSec)

MagAdd(a, b) == MagNorm(a.h + b.h, a.s + b.s, a.ns + b.ns)

Dur(neg, m) == [neg |-> neg /\ m # ZeroMag, mag |-> m]

ZeroDuration == Dur(FALSE, ZeroMag)

\* a - b for magnitudes with b <= a
MagSub(a, b) ==
  LET bn == IF a.ns < b.ns THEN 1 ELSE 0
      bs == IF a.s - bn < b.s THEN 1 ELSE 0
  IN  Mag(a.h - b.h - bs, a.s - bn - b.s + 3600 * bs, a.ns - b.ns + NsPerSec * bn)

\* a + b of two Durations whose sum stays within the int64 range
DurAdd(a, b) ==
  IF a.neg = b.neg THEN Dur(a.neg, MagAdd(a.mag, b.mag))
  ELSE IF MagLE(b.mag, a.mag) THEN Dur(a.neg, MagSub(a.mag, b.mag))
  ELSE Dur(b.neg, MagSub(b.mag, a.mag))

(***************************************************************************)
(* time.ParseDuration of the Go standard library, which ParseTimespan      *)
(* calls: an optional sign, then one or more pairs of a decimal number     *)
(* (digits, optional fraction) and a unit of the unit map of package time; *)
(* a bare "0" is the zero Duration.                                        *)
(***************************************************************************)
UnitNames ==
  { <<"n", "s">>, <<"u", "s">>, <<"µ", "s">>, <<"μ", "s">>, <<"m", "s">>,
    <<"s">>, <<"m">>, <<"h">> }

\* A unit is UnitSec(u) seconds plus UnitNs(u) nanoseconds.
UnitSec(u) ==
  CASE u = <<"h">> -> 3600 [] u = <<"m">> -> 60 [] u = <<"s">> -> 1
    [] OTHER -> 0

UnitNs(u) ==
  CASE u = <<"m", "s">> -> Pow10(6)
    [] u \in {<<"u", "s">>, <<"µ", "s">>, <<"μ", "s">>} -> Pow10(3)
    [] u = <<"n", "s">> -> 1
    [] OTHER -> 0

\* v > 1<<63/unit.  Numerals of the model have at most nine digits, so for
\* the units of a second and below the quotient exceeds every v.
UnitOverflow(v, u) ==
  CASE u = <<"h">> -> v > 2562047
    [] u = <<"m">> -> v > 153722867
    [] OTHER -> FALSE

\* v * unit
MulUnit(v, u) ==
  IF UnitSec(u) > 0
  THEN LET per == 3600 \div UnitSec(u)
       IN  Mag(v \div per, (v % per) * UnitSec(u), 0)
  ELSE LET per  == NsPerSec \div UnitNs(u)
           secs == v \div per
       IN  Mag(secs \div 3600, secs % 3600, (v % per) * UnitNs(u))

\* uint64(float64(f) * (float64(unit) / scale)) for scale = 10^k, k <= 9
FracUnit(f, scale, u) ==
  IF UnitSec(u) > 0
  THEN LET whole == f * UnitSec(u)
           secs  == whole \div scale
       IN  Mag(secs \div 3600, secs % 3600,
               (whole % scale) * (NsPerSec \div scale))
  ELSE IF scale <= UnitNs(u)
       THEN Mag(0, 0, f * (UnitNs(u) \div scale))
       ELSE Mag(0, 0, f \div (scale \div UnitNs(u)))

\* The length of the unit at the head of str: up to the next '.' or digit.
RECURSIVE UnitLen(_)
UnitLen(str) ==
  IF str = <<>> \/ str[1] = "." \/ str[1] \in DigitChars THEN 0
  ELSE 1 + UnitLen(Tail(str))

DurErr == [ok |-> FALSE, mag |-> ZeroMag]

\* The loop of ParseDuration over the number+unit pairs, d the sum so far.
RECURSIVE ParseUnits(_, _)
ParseUnits(str, d) ==
  IF str = <<>> THEN [ok |-> TRUE, mag |-> d]
  ELSE IF ~(str[1] = "." \/ str[1] \in DigitChars) THEN DurErr
  ELSE
    LET nv    == LeadingDigits(str)
        v     == DigitsValue(SubSeq(str, 1, nv))
        s1    == Suffix(str, nv)
        dot   == s1 # <<>> /\ s1[1] = "."
        s2    == IF dot THEN Tail(s1) ELSE s1
        nf    == IF dot THEN LeadingDigits(s2) ELSE 0
        f     == DigitsValue(SubSeq(s2, 1, nf))
        scale == Pow10(nf)
        s3    == Suffix(s2, nf)
        nu    == UnitLen(s3)
        u     == SubSeq(s3, 1, nu)
    IN  IF nv = 0 /\ nf = 0 THEN DurErr
        ELSE IF nu = 0 THEN DurErr
        ELSE IF u \notin UnitNames THEN DurErr
        ELSE IF UnitOverflow(v, u) THEN DurErr
        ELSE
          LET term == IF f > 0 THEN MagAdd(MulUnit(v, u), FracUnit(f, scale, u))
                      ELSE MulUnit(v, u)
              sum  == MagAdd(d, term)
          IN  IF ~MagLE(term, MaxMag) \/ ~MagLE(sum, MaxMag) THEN DurErr
              ELSE ParseUnits(Suffix(s3, nu), sum)

\* time.ParseDuration(str): [ok, d], ok = (err == nil)
ParseDuration(str) ==
  LET signed == str # <<>> /\ str[1] \in {"-", "+"}
      neg    == signed /\ str[1] = "-"
      body   == IF signed THEN Tail(str) ELSE str
  IN  IF body = <<"0">> THEN [ok |-> TRUE, d |-> ZeroDuration]
      ELSE IF body = <<>> THEN [ok |-> FALSE, d |-> ZeroDuration]
      ELSE
        LET r == ParseUnits(body, ZeroMag)
        IN  IF ~r.ok THEN [ok |-> FALSE, d |-> ZeroDuration]
            ELSE IF neg THEN [ok |-> TRUE, d |-> Dur(TRUE, r.mag)]
            ELSE IF r.mag = MaxMag THEN [ok |-> FALSE, d |-> ZeroDuration]
            ELSE [ok |-> TRUE, d |-> Dur(FALSE, r.mag)]

(***************************************************************************)
(* time.Duration.String of the Go standard library, which %v applies in    *)
(* Timespan.String: "1h0m0s", "1m30s", "1.5s", "20ms", "0s".               *)
(***************************************************************************)
\* fmtFrac: the fraction v / 10^prec, trailing zeros and an empty fraction
\* omitted.
RECURSIVE FmtFrac(_, _)
FmtFrac(v, prec) ==
  IF prec = 0 \/ v = 0 THEN <<>>
  ELSE IF v % 10 = 0 THEN FmtFrac(v \div 10, prec - 1)
  ELSE LET ds == NatToStr(v)
       IN  <<".">> \o [k \in 1..(prec - Len(ds)) |-> "0"] \o ds

FormatMag(m) ==
  IF m = ZeroMag THEN <<"0", "s">>
  ELSE IF m.h = 0 /\ m.s = 0
  THEN IF m.ns < Pow10(3) THEN NatToStr(m.ns) \o <<"n", "s">>
       ELSE IF m.ns < Pow10(6)
       THEN NatToStr(m.ns \div Pow10(3)) \o FmtFrac(m.ns % Pow10(3), 3)
              \o <<"µ", "s">>
       ELSE NatToStr(m.ns \div Pow10(6)) \o FmtFrac(m.ns % Pow10(6), 6)
              \o <<"m", "s">>
  ELSE
    LET secs == NatToStr(m.s % 60) \o FmtFrac(m.ns, 9) \o <<"s">>
        mins == NatToStr(m.s \div 60) \o <<"m">>
    IN  IF m.h > 0 THEN NatToStr(m.h) \o <<"h">> \o mins \o secs
        ELSE IF m.s \div 60 > 0 THEN mins \o secs
        ELSE secs

FormatDuration(d) == (IF d.neg THEN <<"-">> ELSE <<>>) \o FormatMag(d.mag)

(***************************************************************************)
(* strconv.Atoi of the Go standard library on a 64-bit int: an optional    *)
(* sign, then at least one decimal digit, the value within the int range.  *)
(***************************************************************************)
MaxIntDigits ==
  << "9", "2", "2", "3", "3", "7", "2", "0", "3", "6", "8", "5", "4", "7",
     "7", "5", "8", "0", "7" >>

MinIntDigits ==
  << "9", "2", "2", "3", "3", "7", "2", "0", "3", "6", "8", "5", "4", "7",
     "7", "5", "8", "0", "8" >>

Atoi(cs) ==
  LET signed == cs # <<>> /\ cs[1] \in {"-", "+"}
      neg    == signed /\ cs[1] = "-"
      ds     == IF signed THEN Tail(cs) ELSE cs
  IN  IF ds = <<>> \/ (\E k \in 1..Len(ds) : ds[k] \notin DigitChars)
      THEN [ok |-> FALSE, v |-> 0]
      ELSE IF ~DigitsLE(StripZeros(ds), IF neg THEN MinIntDigits ELSE MaxIntDigits)
      THEN [ok |-> FALSE, v |-> 0]
      ELSE [ok |-> TRUE, v |-> IF neg THEN 0 - DigitsValue(ds) ELSE DigitsValue(ds)]

(***************************************************************************)
(* errors.go: the error kinds, and the errors ParseTimespan returns.       *)
(***************************************************************************)
ErrTypes ==
  { "noErr", "misplacedSignErr", "missingCoefErr", "unparseableCoefErr",
    "unrecognizedMagErr", "magnOrderUnkownErr", "magnRestatedErr",
    "magnOutOfOrderError", "badDurationErr" }

\* The nil error.
NilErr == [typ |-> "nil", errorType |-> "noErr", tsString |-> <<>>]

\* timespanError(etype, ...): a *timespanErr with no tsString yet.
timespanError(etype) ==
  [typ |-> "timespanErr", errorType |-> etype, tsString |-> <<>>]

\* Faulty variant of withTimespan: the string is not recorded.
withTimespanDropped(te, str) == te

\* te.withTimespan(str)
withTimespan(te, str) == [te EXCEPT !.tsString = str]

\* fmt.Errorf("no value derived for Timespan %q", s): not a *timespanErr.
NoValueError == [typ |-> "errorString", errorType |-> "noErr", tsString |-> <<>>]

(***************************************************************************)
(* coefficient.go: the coefficient accumulator.                            *)
(***************************************************************************)
newCoefficient == <<>>

\* Faulty variant of appendRune: a blank is taken and dropped.
appendRuneSkipsBlank(c, r) ==
  IF r = " "
  THEN [ok |-> TRUE, err |-> NilErr, c |-> c]
  ELSE IF r = "-" \/ r = "+"
  THEN IF Len(c) > 0
       THEN [ok |-> FALSE, err |-> timespanError("misplacedSignErr"), c |-> c]
       ELSE [ok |-> TRUE, err |-> NilErr, c |-> Append(c, r)]
  ELSE IF r \in DigitChars
  THEN [ok |-> TRUE, err |-> NilErr, c |-> Append(c, r)]
  ELSE [ok |-> FALSE, err |-> NilErr, c |-> c]

\* Faulty variant of appendRune: every character but a sign is taken.
appendRuneTakesLetters(c, r) ==
  IF r = "-" \/ r = "+"
  THEN IF Len(c) > 0
       THEN [ok |-> FALSE, err |-> timespanError("misplacedSignErr"), c |-> c]
       ELSE [ok |-> TRUE, err |-> NilErr, c |-> Append(c, r)]
  ELSE [ok |-> TRUE, err |-> NilErr, c |-> Append(c, r)]

\* Faulty variant of appendRune: a sign is taken at any position.
appendRuneSignAnywhere(c, r) ==
  IF r = "-" \/ r = "+" \/ r \in DigitChars
  THEN [ok |-> TRUE, err |-> NilErr, c |-> Append(c, r)]
  ELSE [ok |-> FALSE, err |-> NilErr, c |-> c]

\* Faulty variant of appendRune: a misplaced sign empties the accumulator.
appendRuneClearsOnReject(c, r) ==
  IF r = "-" \/ r = "+"
  THEN IF Len(c) > 0
       THEN [ok |-> FALSE, err |-> timespanError("misplacedSignErr"), c |-> <<>>]
       ELSE [ok |-> TRUE, err |-> NilErr, c |-> Append(c, r)]
  ELSE IF r \in DigitChars
  THEN [ok |-> TRUE, err |-> NilErr, c |-> Append(c, r)]
  ELSE [ok |-> FALSE, err |-> NilErr, c |-> c]

\* c.appendRune(r): [ok, err, c], c the accumulator after the call.
appendRune(c, r) ==
  IF r = "-" \/ r = "+"
  THEN IF Len(c) > 0
       THEN [ok |-> FALSE, err |-> timespanError("misplacedSignErr"), c |-> c]
       ELSE [ok |-> TRUE, err |-> NilErr, c |-> Append(c, r)]
  ELSE IF r \in DigitChars
  THEN [ok |-> TRUE, err |-> NilErr, c |-> Append(c, r)]
  ELSE [ok |-> FALSE, err |-> NilErr, c |-> c]

\* Faulty variant of signOverride: an explicit '+' no longer protects the value.
signOverrideIgnoresPlus(cs, cv, sign) ==
  IF sign < 0 /\ cv > 0 THEN cv * (0 - 1) ELSE cv

\* The sign override of coefficient.value: negate a positive value that
\* was not written with an explicit '+'.
signOverride(cs, cv, sign) ==
  IF sign < 0 /\ cv > 0 /\ cs[1] # "+" THEN cv * (0 - 1) ELSE cv

\* Faulty variant of value: an empty accumulator is read as 0.
valueEmptyIsZero(c, sign) ==
  IF Len(c) < 1 THEN [v |-> 0, err |-> NilErr]
  ELSE LET a == Atoi(c)
       IN  IF ~a.ok THEN [v |-> 0, err |-> timespanError("unparseableCoefErr")]
           ELSE [v |-> signOverride(c, a.v, sign), err |-> NilErr]

\* Faulty variant of value: a failed conversion is reported as a missing
\* coefficient.
valueUnparseableIsMissing(c, sign) ==
  IF Len(c) < 1 THEN [v |-> 0, err |-> timespanError("missingCoefErr")]
  ELSE LET a == Atoi(c)
       IN  IF ~a.ok THEN [v |-> 0, err |-> timespanError("missingCoefErr")]
           ELSE [v |-> signOverride(c, a.v, sign), err |-> NilErr]

\* c.value(sign): [v, err]
value(c, sign) ==
  IF Len(c) < 1 THEN [v |-> 0, err |-> timespanError("missingCoefErr")]
  ELSE LET a == Atoi(c)
       IN  IF ~a.ok THEN [v |-> 0, err |-> timespanError("unparseableCoefErr")]
           ELSE [v |-> signOverride(c, a.v, sign), err |-> NilErr]

(***************************************************************************)
(* magnitude.go: the magnitude registry.  The labels of the entries only   *)
(* feed the error messages, which are not modelled.                        *)
(***************************************************************************)
magOrder == <<"Y", "M", "W", "D">>

newMagset == [g \in {"Y", "M", "W", "D"} |-> [isSet |-> FALSE, value |-> 0]]

\* ms.get(r)
magsetGet(ms, r) == ms[r].value

\* Faulty variant of magIndex: the week has no position in the order.
magIndexNoWeek(r) ==
  IF r = "Y" THEN 0 ELSE IF r = "M" THEN 1 ELSE IF r = "D" THEN 3 ELSE 0 - 1

\* strings.Index(magOrder, r), for a one-character r: 0-based, -1 if absent.
magIndex(r) ==
  IF \E k \in 1..Len(magOrder) : magOrder[k] = r
  THEN (CHOOSE k \in 1..Len(magOrder) : magOrder[k] = r) - 1
  ELSE 0 - 1

\* Faulty variant of laterIsSet: only the category next in the order is looked at.
laterIsSetAdjacent(ms, i) ==
  i + 2 <= Len(magOrder) /\ ms[magOrder[i + 2]].isSet

\* Faulty variant of laterIsSet: the order is not checked at all.
laterIsSetNever(ms, i) == FALSE

\* The scan of magOrder[i:] for an entry already set.
laterIsSet(ms, i) == \E k \in (i + 1)..Len(magOrder) : ms[magOrder[k]].isSet

\* Faulty variant of magsetSet: the restatement check is missing.
magsetSetNoRestateCheck(ms, r0, val) ==
  LET r == IF r0 = "d" THEN "D" ELSE r0
      i == magIndex(r)
  IN  IF r \notin DOMAIN ms
      THEN [err |-> timespanError("unrecognizedMagErr"), ms |-> ms]
      ELSE IF i < 0
      THEN [err |-> timespanError("magnOrderUnkownErr"), ms |-> ms]
      ELSE IF \E k \in (i + 1)..Len(magOrder) : ms[magOrder[k]].isSet
      THEN [err |-> timespanError("magnOutOfOrderError"), ms |-> ms]
      ELSE [err |-> NilErr,
            ms |-> [ms EXCEPT ![r] = [isSet |-> TRUE, value |-> val]]]

\* Faulty variant of magsetSet: a character outside the registry is passed over.
magsetSetSkipsUnknown(ms, r0, val) ==
  LET r == IF r0 = "d" THEN "D" ELSE r0
      i == magIndex(r)
  IN  IF r \notin DOMAIN ms
      THEN [err |-> NilErr, ms |-> ms]
      ELSE IF ms[r].isSet
      THEN [err |-> timespanError("magnRestatedErr"), ms |-> ms]
      ELSE IF \E k \in (i + 1)..Len(magOrder) : ms[magOrder[k]].isSet
      THEN [err |-> timespanError("magnOutOfOrderError"), ms |-> ms]
      ELSE [err |-> NilErr,
            ms |-> [ms EXCEPT ![r] = [isSet |-> TRUE, value |-> val]]]

\* Faulty variant of magsetSet: 'd' is not read as 'D'.
magsetSetNoFold(ms, r, val) ==
  LET i == magIndex(r)
  IN  IF r \notin DOMAIN ms
      THEN [err |-> timespanError("unrecognizedMagErr"), ms |-> ms]
      ELSE IF i < 0
      THEN [err |-> timespanError("magnOrderUnkownErr"), ms |-> ms]
      ELSE IF ms[r].isSet
      THEN [err |-> timespanError("magnRestatedErr"), ms |-> ms]
      ELSE IF laterIsSet(ms, i)
      THEN [err |-> timespanError("magnOutOfOrderError"), ms |-> ms]
      ELSE [err |-> NilErr,
            ms |-> [ms EXCEPT ![r] = [isSet |-> TRUE, value |-> val]]]

\* Faulty variant of magsetSet: the order is checked before the restatement.
magsetSetOrderFirst(ms, r0, val) ==
  LET r == IF r0 = "d" THEN "D" ELSE r0
      i == magIndex(r)
  IN  IF r \notin DOMAIN ms
      THEN [err |-> timespanError("unrecognizedMagErr"), ms |-> ms]
      ELSE IF i < 0
      THEN [err |-> timespanError("magnOrderUnkownErr"), ms |-> ms]
      ELSE IF \E k \in (i + 2)..Len(magOrder) : ms[magOrder[k]].isSet
      THEN [err |-> timespanError("magnOutOfOrderError"), ms |-> ms]
      ELSE IF ms[r].isSet
      THEN [err |-> timespanError("magnRestatedErr"), ms |-> ms]
      ELSE [err |-> NilErr,
            ms |-> [ms EXCEPT ![r] = [isSet |-> TRUE, value |-> val]]]

\* Faulty variant of magsetSet: a restated value is stored before the error.
magsetSetStoresOnRestate(ms, r0, val) ==
  LET r == IF r0 = "d" THEN "D" ELSE r0
      i == magIndex(r)
  IN  IF r \notin DOMAIN ms
      THEN [err |-> timespanError("unrecognizedMagErr"), ms |-> ms]
      ELSE IF i < 0
      THEN [err |-> timespanError("magnOrderUnkownErr"), ms |-> ms]
      ELSE IF ms[r].isSet
      THEN [err |-> timespanError("magnRestatedErr"),
            ms |-> [ms EXCEPT ![r] = [isSet |-> TRUE, value |-> val]]]
      ELSE IF laterIsSet(ms, i)
      THEN [err |-> timespanError("magnOutOfOrderError"), ms |-> ms]
      ELSE [err |-> NilErr,
            ms |-> [ms EXCEPT ![r] = [isSet |-> TRUE, value |-> val]]]

\* ms.set(r, val): [err, ms], ms the registry after the call.
magsetSet(ms, r0, val) ==
  LET r == IF r0 = "d" THEN "D" ELSE r0
      i == magIndex(r)
  IN  IF r \notin DOMAIN ms
      THEN [err |-> timespanError("unrecognizedMagErr"), ms |-> ms]
      ELSE IF i < 0
      THEN [err |-> timespanError("magnOrderUnkownErr"), ms |-> ms]
      ELSE IF ms[r].isSet
      THEN [err |-> timespanError("magnRestatedErr"), ms |-> ms]
      ELSE IF laterIsSet(ms, i)
      THEN [err |-> timespanError("magnOutOfOrderError"), ms |-> ms]
      ELSE [err |-> NilErr,
            ms |-> [ms EXCEPT ![r] = [isSet |-> TRUE, value |-> val]]]

(***************************************************************************)
(* timespan.go: the Timespan value and its renderer.                       *)
(***************************************************************************)
Timespan(y, m, d, dur) ==
  [Years |-> y, Months |-> m, Days |-> d, Duration |-> dur]

ZeroTimespan == Timespan(0, 0, 0, ZeroDuration)

\* Faulty variant of derivedDays: the weeks are added without the factor 7.
derivedDaysUnfolded(ms) == ms["D"].value + ms["W"].value

\* ts.Days as ParseTimespan derives it from the registry after the scan.
derivedDays(ms) == magsetGet(ms, "D") + magsetGet(ms, "W") * 7

\* Faulty variant of signAfter: a committed zero leaves the sign negative.
signAfterZeroNegative(v) == IF v > 0 THEN 1 ELSE 0 - 1

\* The running sign after a period of value v has been committed.
signAfter(v) == IF v < 0 THEN 0 - 1 ELSE 1

\* Faulty variant of noMagnitudeChars: the short-circuit is never taken.
neverDurationOnly(str) == FALSE

\* Faulty variant of noMagnitudeChars: the empty string is not short-circuited.
emptyIsScanned(str) ==
  str # <<>> /\ \A k \in 1..Len(str) : str[k] \notin {"Y", "M", "W", "D", "d"}

\* strings.IndexAny(str, "YMWDd") == -1
noMagnitudeChars(str) ==
  \A k \in 1..Len(str) : str[k] \notin {"Y", "M", "W", "D", "d"}

\* Faulty variant of String: whole weeks of days are written with the letter W.
StringWithWeeks(ts) ==
  LET s1 == IF ts.Years # 0 THEN IntToStr(ts.Years) \o <<"Y">> ELSE <<>>
      s2 == IF ts.Months # 0 THEN s1 \o IntToStr(ts.Months) \o <<"M">> ELSE s1
      s3 == IF ts.Days # 0 /\ ts.Days % 7 = 0
            THEN s2 \o IntToStr(ts.Days \div 7) \o <<"W">>
            ELSE IF ts.Days # 0 THEN s2 \o IntToStr(ts.Days) \o <<"D">> ELSE s2
  IN  IF ts.Duration # ZeroDuration THEN s3 \o FormatDuration(ts.Duration)
      ELSE s3

\* Faulty variant of String: the days are written before the months.
StringDaysBeforeMonths(ts) ==
  LET s1 == IF ts.Years # 0 THEN IntToStr(ts.Years) \o <<"Y">> ELSE <<>>
      s2 == IF ts.Days # 0 THEN s1 \o IntToStr(ts.Days) \o <<"D">> ELSE s1
      s3 == IF ts.Months # 0 THEN s2 \o IntToStr(ts.Months) \o <<"M">> ELSE s2
  IN  IF ts.Duration # ZeroDuration THEN s3 \o FormatDuration(ts.Duration)
      ELSE s3

\* ts.String()
String(ts) ==
  LET s1 == IF ts.Years # 0 THEN IntToStr(ts.Years) \o <<"Y">> ELSE <<>>
      s2 == IF ts.Months # 0 THEN s1 \o IntToStr(ts.Months) \o <<"M">> ELSE s1
      s3 == IF ts.Days # 0 THEN s2 \o IntToStr(ts.Days) \o <<"D">> ELSE s2
  IN  IF ts.Duration # ZeroDuration THEN s3 \o FormatDuration(ts.Duration)
      ELSE s3

\* ts.Equal(ots)
\* Faulty variant of Equal: the days are not compared.
EqualSkipsDays(ts, ots) ==
  /\ ts.Duration = ots.Duration
  /\ ts.Months = ots.Months
  /\ ts.Years = ots.Years

\* ts.Equal(ots)
Equal(ts, ots) ==
  /\ ts.Duration = ots.Duration
  /\ ts.Days = ots.Days
  /\ ts.Months = ots.Months
  /\ ts.Years = ots.Years

\* Faulty variant of Add: twelve months are carried into a year.
AddCarriesMonths(ts, ots) ==
  LET m == ts.Months + ots.Months
  IN  Timespan(ts.Years + ots.Years + (m \div 12), m % 12,
               ts.Days + ots.Days, DurAdd(ts.Duration, ots.Duration))

\* The Timespan literal that ts.Add(ots) builds.
Add(ts, ots) ==
  Timespan(ts.Years + ots.Years, ts.Months + ots.Months,
           ts.Days + ots.Days, DurAdd(ts.Duration, ots.Duration))

\* Faulty variant of AddNew: the sum is stored in the receiver, which is returned.
AddInPlace(h, p, q) ==
  [heap |-> [h EXCEPT ![p] = Add(h[p], h[q])], ptr |-> p]

\* ts.Add(ots) on the heap h, ts at address p and ots at address q: the
\* literal is allocated at a new address, which is returned.
AddNew(h, p, q) ==
  [heap |-> Append(h, Add(h[p], h[q])), ptr |-> Len(h) + 1]

(***************************************************************************)
(* The inputs of the model.                                                *)
(***************************************************************************)
\* Every string over Alphabet of at most MaxLen characters: digits, signs,
\* magnitude letters, a duration unit, and a blank.
Alphabet == {"0", "1", "+", "-", "Y", "D", "d", "h", " "}

RawInputs == UNION { [1..n -> Alphabet] : n \in 0..MaxLen }

\* Every concatenation of at most MaxTerms terms: an optional sign, a digit,
\* and a magnitude letter or the duration unit h.
TermSigns == {<<>>, <<"+">>, <<"-">>}

TermDigits == {"0", "2"}

TermLetters == {"Y", "M", "W", "D", "h"}

Terms == { sg \o <<dg, lt>> : sg \in TermSigns, dg \in TermDigits, lt \in TermLetters }

RECURSIVE TermStrings(_)
TermStrings(n) ==
  IF n = 0 THEN {<<>>}
  ELSE LET p == TermStrings(n - 1)
       IN  p \cup { a \o b : a \in p, b \in Terms }

\* Every concatenation of at most MaxPeriods periods: an optional '-', a
\* digit and a magnitude letter.
PeriodSigns == {<<>>, <<"-">>}

PeriodLetters == {"Y", "M", "D"}

Periods == { sg \o <<dg, lt>> : sg \in PeriodSigns, dg \in TermDigits, lt \in PeriodLetters }

RECURSIVE PeriodStrings(_)
PeriodStrings(n) ==
  IF n = 0 THEN {<<>>}
  ELSE LET p == PeriodStrings(n - 1)
       IN  p \cup { a \o b : a \in p, b \in Periods }

Inputs == RawInputs \cup TermStrings(MaxTerms) \cup PeriodStrings(MaxPeriods)

(***************************************************************************)
(* The state: one call of ParseTimespan on input, followed (when it        *)
(* succeeds) by a second call on the rendering of its result.              *)
(***************************************************************************)
VARIABLES
  input,    \* the string given to the first call
  call,     \* 1: ParseTimespan(input); 2: ParseTimespan(result.String())
  s,        \* the argument of the current call
  pc,       \* "entry", "loop" (the head of the scan), "exit" (after it), "ret"
  i,        \* the offset of the scan in s (0-based, as in the code)
  ts,       \* the Timespan under construction
  ms,       \* the magnitude registry of the call
  sign,     \* the running sign
  valid,    \* whether a period or a duration has been derived
  coef,     \* the coefficient accumulator
  ret,      \* what the current call returned
  first,    \* what the first call returned
  commits,  \* history: the periods committed by the current call, in order:
            \* the character, the accumulator, the running sign, the value
  heap,     \* the Timespan values behind the pointers: address k holds heap[k]
  recv,     \* the receiver ts of a method call (an address)
  arg,      \* the argument ots of a method call (an address)
  op,       \* the method that has been called: "none", "Add", "Equal"
  out,      \* what the method returned
  heap0,    \* history: the heap when the method was called
  par,      \* two calls of ParseTimespan in progress at once: the locals of
            \* each, and the registries that newMagset has allocated
  last      \* the last call made on a registry or an accumulator on its own:
            \* its argument, what it returned, and the object before the call

parseVars ==
  <<input, call, s, pc, i, ts, ms, sign, valid, coef, ret, first, commits>>

opVars == <<heap, recv, arg, op, out, heap0>>

auxVars == <<par, last>>

vars == <<parseVars, opVars, auxVars>>

\* What a method returns: a pointer (0 when it returns none) or a bool.
NoOut == [ptr |-> 0, eq |-> FALSE]

\* No method call is under way.
NoMethodCall ==
  /\ heap = <<>>
  /\ recv = 0
  /\ arg = 0
  /\ op = "none"
  /\ out = NoOut
  /\ heap0 = <<>>

\* What a call returns: (*Timespan, error); tsNil says the pointer is nil.
Returned(tsNil, tsv, err) == [tsNil |-> tsNil, ts |-> tsv, err |-> err]

NoRet == Returned(TRUE, ZeroTimespan, NilErr)

NoPar == [proc |-> <<>>, regs |-> <<>>]

NoLast == [fn |-> "none"]

\* No concurrent calls, and no call on a registry or an accumulator alone.
NoAuxCall ==
  /\ par = NoPar
  /\ last = NoLast

Init ==
  /\ input \in Inputs
  /\ call = 1
  /\ s = input
  /\ pc = "entry"
  /\ i = 0
  /\ ts = ZeroTimespan
  /\ ms = newMagset
  /\ sign = 1
  /\ valid = FALSE
  /\ coef = newCoefficient
  /\ ret = NoRet
  /\ first = NoRet
  /\ commits = <<>>
  /\ NoMethodCall
  /\ NoAuxCall

\* The scan moves to offset i + 1: the head of the loop, or past the string.
nextPc == IF i + 1 < Len(s) THEN "loop" ELSE "exit"

\* Faulty variant of ReturnErr: the Timespan under construction is returned
\* with the error.
ReturnErrKeepsTimespan(err) ==
  /\ pc' = "ret"
  /\ ret' = Returned(FALSE, ts, err)

\* return nil, err
ReturnErr(err) ==
  /\ pc' = "ret"
  /\ ret' = Returned(TRUE, ZeroTimespan, err)

\* timespan.go 172-180: no magnitude character, so only a time.Duration.
DurationOnly ==
  /\ pc = "entry"
  /\ noMagnitudeChars(s)
  /\ LET d == ParseDuration(s)
     IN  IF ~d.ok
         THEN /\ ReturnErr(timespanError("badDurationErr"))
              /\ UNCHANGED ts
         ELSE /\ ts' = [ZeroTimespan EXCEPT !.Duration = d.d]
              /\ pc' = "ret"
              /\ ret' = Returned(FALSE, ts', NilErr)
  /\ UNCHANGED <<input, call, s, i, ms, sign, valid, coef, first, commits>>
  /\ UNCHANGED opVars
  /\ UNCHANGED auxVars

\* timespan.go 170, 182-188: the locals of the scan.
BeginScan ==
  /\ pc = "entry"
  /\ ~noMagnitudeChars(s)
  /\ ts' = ZeroTimespan
  /\ ms' = newMagset
  /\ sign' = 1
  /\ valid' = FALSE
  /\ coef' = newCoefficient
  /\ i' = 0
  /\ pc' = IF Len(s) > 0 THEN "loop" ELSE "exit"
  /\ UNCHANGED <<input, call, s, ret, first, commits>>
  /\ UNCHANGED opVars
  /\ UNCHANGED auxVars

\* Faulty variant of ScanDuration: the running sign is applied to the duration.
ScanDurationSigned ==
  /\ pc = "loop"
  /\ LET d == ParseDuration(Suffix(s, i))
     IN  /\ d.ok
         /\ ts' = [ts EXCEPT !.Duration =
                     IF sign < 0 THEN Dur(~d.d.neg, d.d.mag) ELSE d.d]
  /\ valid' = TRUE
  /\ pc' = "exit"
  /\ UNCHANGED <<input, call, s, i, ms, sign, coef, ret, first, commits>>
  /\ UNCHANGED opVars
  /\ UNCHANGED auxVars

\* timespan.go 189-193: the rest of the string is a time.Duration.
ScanDuration ==
  /\ pc = "loop"
  /\ LET d == ParseDuration(Suffix(s, i))
     IN  /\ d.ok
         /\ ts' = [ts EXCEPT !.Duration = d.d]
  /\ valid' = TRUE
  /\ pc' = "exit"
  /\ UNCHANGED <<input, call, s, i, ms, sign, coef, ret, first, commits>>
  /\ UNCHANGED opVars
  /\ UNCHANGED auxVars

\* timespan.go 195-199: the character is offered to the accumulator, which
\* takes it or fails on a misplaced sign.
ScanAppend ==
  /\ pc = "loop"
  /\ ~ParseDuration(Suffix(s, i)).ok
  /\ LET a == appendRune(coef, s[i + 1])
     IN  /\ a.ok \/ a.err # NilErr
         /\ IF a.err # NilErr
            THEN /\ ReturnErr(withTimespan(a.err, s))
                 /\ UNCHANGED <<i, coef>>
            ELSE /\ coef' = a.c
                 /\ i' = i + 1
                 /\ pc' = nextPc
                 /\ UNCHANGED ret
  /\ UNCHANGED <<input, call, s, ts, ms, sign, valid, first, commits>>
  /\ UNCHANGED opVars
  /\ UNCHANGED auxVars

\* Faulty variant of ScanCommit: the registry is asked about the character
\* before the coefficient is resolved.
ScanCommitRegistryFirst ==
  /\ pc = "loop"
  /\ ~ParseDuration(Suffix(s, i)).ok
  /\ LET r  == s[i + 1]
         a  == appendRune(coef, r)
         s0 == magsetSet(ms, r, 0)
         cv == value(coef, sign)
         st == magsetSet(ms, r, cv.v)
     IN  /\ ~a.ok /\ a.err = NilErr
         /\ IF s0.err # NilErr
            THEN /\ ReturnErr(withTimespan(s0.err, s))
                 /\ UNCHANGED <<i, ms, sign, valid, coef, commits>>
            ELSE IF cv.err # NilErr
            THEN /\ ReturnErr(withTimespan(cv.err, s))
                 /\ UNCHANGED <<i, ms, sign, valid, coef, commits>>
            ELSE /\ ms' = st.ms
                 /\ sign' = signAfter(cv.v)
                 /\ valid' = TRUE
                 /\ commits' = Append(commits, [glyph |-> r, coef |-> coef,
                                              sign |-> sign, value |-> cv.v])
                 /\ coef' = newCoefficient
                 /\ i' = i + 1
                 /\ pc' = nextPc
                 /\ UNCHANGED ret
  /\ UNCHANGED <<input, call, s, ts, first>>
  /\ UNCHANGED opVars
  /\ UNCHANGED auxVars

\* Faulty variant of ScanCommit: after a commit the scan starts over at the
\* first character.
ScanCommitRewinds ==
  /\ pc = "loop"
  /\ ~ParseDuration(Suffix(s, i)).ok
  /\ LET r  == s[i + 1]
         a  == appendRune(coef, r)
         cv == value(coef, sign)
         st == magsetSet(ms, r, cv.v)
     IN  /\ ~a.ok /\ a.err = NilErr
         /\ IF cv.err # NilErr
            THEN /\ ReturnErr(withTimespan(cv.err, s))
                 /\ UNCHANGED <<i, ms, sign, valid, coef, commits>>
            ELSE IF st.err # NilErr
            THEN /\ ReturnErr(withTimespan(st.err, s))
                 /\ UNCHANGED <<i, ms, sign, valid, coef, commits>>
            ELSE /\ ms' = st.ms
                 /\ sign' = signAfter(cv.v)
                 /\ valid' = TRUE
                 /\ commits' = Append(commits, [glyph |-> r, coef |-> coef,
                                              sign |-> sign, value |-> cv.v])
                 /\ coef' = newCoefficient
                 /\ i' = 0
                 /\ pc' = "loop"
                 /\ UNCHANGED ret
  /\ UNCHANGED <<input, call, s, ts, first>>
  /\ UNCHANGED opVars
  /\ UNCHANGED auxVars

\* timespan.go 201-217: the character ends a period: the coefficient is
\* resolved and committed to the registry under that character.
ScanCommit ==
  /\ pc = "loop"
  /\ ~ParseDuration(Suffix(s, i)).ok
  /\ LET r  == s[i + 1]
         a  == appendRune(coef, r)
         cv == value(coef, sign)
         st == magsetSet(ms, r, cv.v)
     IN  /\ ~a.ok /\ a.err = NilErr
         /\ IF cv.err # NilErr
            THEN /\ ReturnErr(withTimespan(cv.err, s))
                 /\ UNCHANGED <<i, ms, sign, valid, coef, commits>>
            ELSE IF st.err # NilErr
            THEN /\ ReturnErr(withTimespan(st.err, s))
                 /\ UNCHANGED <<i, ms, sign, valid, coef, commits>>
            ELSE /\ ms' = st.ms
                 /\ sign' = signAfter(cv.v)
                 /\ valid' = TRUE
                 /\ commits' = Append(commits, [glyph |-> r, coef |-> coef,
                                              sign |-> sign, value |-> cv.v])
                 /\ coef' = newCoefficient
                 /\ i' = i + 1
                 /\ pc' = nextPc
                 /\ UNCHANGED ret
  /\ UNCHANGED <<input, call, s, ts, first>>
  /\ UNCHANGED opVars
  /\ UNCHANGED auxVars

\* timespan.go 220-229: after the scan.
ScanExit ==
  /\ pc = "exit"
  /\ IF ~valid
     THEN /\ ReturnErr(NoValueError)
          /\ UNCHANGED ts
     ELSE /\ ts' = Timespan(magsetGet(ms, "Y"), magsetGet(ms, "M"),
                            derivedDays(ms), ts.Duration)
          /\ pc' = "ret"
          /\ ret' = Returned(FALSE, ts', NilErr)
  /\ UNCHANGED <<input, call, s, i, ms, sign, valid, coef, first, commits>>
  /\ UNCHANGED opVars
  /\ UNCHANGED auxVars

\* The caller renders the result of the first call and parses the rendering:
\* ParseTimespan(ts.String()).
Reparse ==
  /\ pc = "ret"
  /\ call = 1
  /\ ret.err = NilErr
  /\ first' = ret
  /\ call' = 2
  /\ s' = String(ret.ts)
  /\ pc' = "entry"
  /\ i' = 0
  /\ ts' = ZeroTimespan
  /\ ms' = newMagset
  /\ sign' = 1
  /\ valid' = FALSE
  /\ coef' = newCoefficient
  /\ ret' = NoRet
  /\ commits' = <<>>
  /\ UNCHANGED input
  /\ UNCHANGED opVars
  /\ UNCHANGED auxVars

Next ==
  \/ DurationOnly
  \/ BeginScan
  \/ ScanDuration
  \/ ScanAppend
  \/ ScanCommit
  \/ ScanExit
  \/ Reparse

Spec == Init /\ [][Next]_vars

\* No step remains: the second call has returned, or the first returned an
\* error and its result is not rendered.
CallsDone == pc = "ret" /\ (call = 2 \/ ret.err # NilErr)

\* A call that has a step to take takes it: the code runs on without waiting.
\* This is WF_vars(Next) with the enabling condition of Next written out: Next
\* is enabled exactly where ~CallsDone (the guards of the actions cover "entry",
\* "loop" with i < Len(s), "exit", and "ret" of an accepted first call).
SpecLive ==
  Init /\ [][Next]_vars /\ ([]<><<Next>>_vars \/ []<>CallsDone)

(***************************************************************************)
(* A Timespan value built by the caller, rendered by String, and the       *)
(* rendering given to ParseTimespan.  The state is the one Reparse leaves, *)
(* with first holding the value rendered instead of a parser's result.     *)
(***************************************************************************)
\* ts.Years of the value rendered.
RenderedYears == {0 - 2, 0, 1}
\* ts.Months of the value rendered.
RenderedMonths == {0 - 1, 0, 13}
\* ts.Days of the value rendered.
RenderedDays == {0 - 15, 0, 2, 14}
\* ts.Duration of the value rendered: 0, 48h, -1h30m, 500ms.
RenderedDurations ==
  { ZeroDuration, Dur(FALSE, Mag(48, 0, 0)), Dur(TRUE, Mag(1, 1800, 0)),
    Dur(FALSE, Mag(0, 0, 500000000)) }

RenderedTimespans ==
  { Timespan(y, m, d, du) : y \in RenderedYears, m \in RenderedMonths,
                            d \in RenderedDays, du \in RenderedDurations }

\* ParseTimespan(ts.String()) is about to be called.
InitRendered ==
  /\ \E tsv \in RenderedTimespans :
       /\ first = Returned(FALSE, tsv, NilErr)
       /\ s = String(tsv)
  /\ input = s
  /\ call = 2
  /\ pc = "entry"
  /\ i = 0
  /\ ts = ZeroTimespan
  /\ ms = newMagset
  /\ sign = 1
  /\ valid = FALSE
  /\ coef = newCoefficient
  /\ ret = NoRet
  /\ commits = <<>>
  /\ NoMethodCall
  /\ NoAuxCall

NextRendered ==
  \/ DurationOnly
  \/ BeginScan
  \/ ScanDuration
  \/ ScanAppend
  \/ ScanCommit
  \/ ScanExit

SpecRendered == InitRendered /\ [][NextRendered]_vars

(***************************************************************************)
(* The methods of a Timespan: one call of Add or Equal on two Timespan     *)
(* values behind pointers, which may be the same pointer.                  *)
(***************************************************************************)
OperandYears == {0, 1}

OperandMonths == {0 - 1, 8, 9}

OperandDays == {0, 2}

\* 0, 48h, -1h30m, 500ms
OperandDurations ==
  { ZeroDuration, Dur(FALSE, Mag(48, 0, 0)), Dur(TRUE, Mag(1, 1800, 0)),
    Dur(FALSE, Mag(0, 0, 500000000)) }

OperandTimespans ==
  { Timespan(y, m, d, dur) : y \in OperandYears, m \in OperandMonths,
                             d \in OperandDays, dur \in OperandDurations }

\* No call of ParseTimespan is under way.
NoParse ==
  /\ input = <<>>
  /\ call = 1
  /\ s = <<>>
  /\ pc = "entry"
  /\ i = 0
  /\ ts = ZeroTimespan
  /\ ms = newMagset
  /\ sign = 1
  /\ valid = FALSE
  /\ coef = newCoefficient
  /\ ret = NoRet
  /\ first = NoRet
  /\ commits = <<>>

InitOps ==
  /\ NoParse
  /\ heap \in [1..2 -> OperandTimespans]
  /\ recv \in 1..2
  /\ arg \in 1..2
  /\ op = "none"
  /\ out = NoOut
  /\ heap0 = <<>>
  /\ NoAuxCall

\* timespan.go 271-278: ts.Add(ots)
AddCall ==
  /\ op = "none"
  /\ LET a == AddNew(heap, recv, arg)
     IN  /\ heap' = a.heap
         /\ out' = [ptr |-> a.ptr, eq |-> FALSE]
  /\ heap0' = heap
  /\ op' = "Add"
  /\ UNCHANGED <<recv, arg>>
  /\ UNCHANGED parseVars
  /\ UNCHANGED auxVars

\* timespan.go 287-292: ts.Equal(ots)
EqualCall ==
  /\ op = "none"
  /\ out' = [ptr |-> 0, eq |-> Equal(heap[recv], heap[arg])]
  /\ heap0' = heap
  /\ op' = "Equal"
  /\ UNCHANGED <<heap, recv, arg>>
  /\ UNCHANGED parseVars
  /\ UNCHANGED auxVars

NextOps ==
  \/ AddCall
  \/ EqualCall

SpecOps == InitOps /\ [][NextOps]_vars

(***************************************************************************)
(* Two calls of ParseTimespan in progress at once.  Each call has its own  *)
(* locals; a registry is a map, which the call holds by reference, so the  *)
(* registries live in a heap and a call holds the address of its own.  A   *)
(* step of a call is one pass through the short-circuit, one iteration of  *)
(* the scan, or the code after the scan.                                   *)
(***************************************************************************)
\* The locals of a call on str, at its entry.
newLocal(str) ==
  [s |-> str, pc |-> "entry", i |-> 0, ts |-> ZeroTimespan, ms |-> 0,
   sign |-> 1, valid |-> FALSE, coef |-> newCoefficient, ret |-> NoRet]

\* Faulty variant of newMagsetAt: one registry of the package serves every call.
sharedMagsetAt(h) ==
  IF h = <<>> THEN [regs |-> <<newMagset>>, ptr |-> 1]
  ELSE [regs |-> h, ptr |-> 1]

\* ms := newMagset(): a new registry in the heap h, and its address.
newMagsetAt(h) == [regs |-> Append(h, newMagset), ptr |-> Len(h) + 1]

\* return nil, err
localErr(L, err) ==
  [L EXCEPT !.pc = "ret", !.ret = Returned(TRUE, ZeroTimespan, err)]

\* return ts, nil
localOk(L, tsv) ==
  [L EXCEPT !.pc = "ret", !.ts = tsv, !.ret = Returned(FALSE, tsv, NilErr)]

\* One step of the call with locals L on the heap h: [loc, regs].
parStep(L, h) ==
  IF L.pc = "entry"
  THEN IF noMagnitudeChars(L.s)
       THEN LET d == ParseDuration(L.s)
            IN  IF ~d.ok
                THEN [loc |-> localErr(L, timespanError("badDurationErr")),
                      regs |-> h]
                ELSE [loc |-> localOk(L, [ZeroTimespan EXCEPT !.Duration = d.d]),
                      regs |-> h]
       ELSE LET a == newMagsetAt(h)
            IN  [loc |-> [L EXCEPT !.ms = a.ptr,
                                   !.pc = IF Len(L.s) > 0 THEN "loop" ELSE "exit"],
                 regs |-> a.regs]
  ELSE IF L.pc = "loop"
  THEN LET d  == ParseDuration(Suffix(L.s, L.i))
           r  == L.s[L.i + 1]
           a  == appendRune(L.coef, r)
           cv == value(L.coef, L.sign)
           st == magsetSet(h[L.ms], r, cv.v)
           nx == IF L.i + 1 < Len(L.s) THEN "loop" ELSE "exit"
       IN  IF d.ok
           THEN [loc |-> [L EXCEPT !.ts.Duration = d.d, !.valid = TRUE,
                                   !.pc = "exit"],
                 regs |-> h]
           ELSE IF a.err # NilErr
           THEN [loc |-> localErr(L, withTimespan(a.err, L.s)), regs |-> h]
           ELSE IF a.ok
           THEN [loc |-> [L EXCEPT !.coef = a.c, !.i = L.i + 1, !.pc = nx],
                 regs |-> h]
           ELSE IF cv.err # NilErr
           THEN [loc |-> localErr(L, withTimespan(cv.err, L.s)), regs |-> h]
           ELSE IF st.err # NilErr
           THEN [loc |-> localErr(L, withTimespan(st.err, L.s)), regs |-> h]
           ELSE [loc |-> [L EXCEPT !.sign = signAfter(cv.v), !.valid = TRUE,
                                   !.coef = newCoefficient, !.i = L.i + 1,
                                   !.pc = nx],
                 regs |-> [h EXCEPT ![L.ms] = st.ms]]
  ELSE IF ~L.valid
  THEN [loc |-> localErr(L, NoValueError), regs |-> h]
  ELSE [loc |-> localOk(L, Timespan(magsetGet(h[L.ms], "Y"),
                                    magsetGet(h[L.ms], "M"),
                                    derivedDays(h[L.ms]), L.ts.Duration)),
        regs |-> h]

\* The strings of the two calls: at most one term, two periods, and strings
\* that fail in the scan.
ParInputs ==
  TermStrings(1)
    \cup { a \o b : a, b \in {<<"2", "Y">>, <<"-", "2", "M">>, <<"2", "D">>} }
    \cup { <<"-", "Y">>, <<"1", "Y", "1", "0">>, <<"2", "W", "2", "h">> }

InitPar ==
  /\ NoParse
  /\ NoMethodCall
  /\ last = NoLast
  /\ par \in { [proc |-> <<newLocal(a), newLocal(b)>>, regs |-> <<>>] :
                 a, b \in ParInputs }

\* One of the two calls takes its next step.
ParStep ==
  /\ \E p \in 1..2 :
       /\ par.proc[p].pc # "ret"
       /\ LET st == parStep(par.proc[p], par.regs)
          IN  par' = [proc |-> [par.proc EXCEPT ![p] = st.loc], regs |-> st.regs]
  /\ UNCHANGED parseVars
  /\ UNCHANGED opVars
  /\ UNCHANGED last

NextPar ==
  \/ ParStep

SpecPar == InitPar /\ [][NextPar]_vars

(***************************************************************************)
(* A registry on its own: any sequence of set calls on a registry made by  *)
(* newMagset, with any letters and values.                                 *)
(***************************************************************************)
SetLetters == {"Y", "M", "W", "D", "d", "h"}

SetValues == {0 - 2, 0, 2}

InitUnits ==
  /\ NoParse
  /\ NoMethodCall
  /\ NoAuxCall

\* magnitude.go 50-79: ms.set(r, val)
MagsetSetCall ==
  /\ \E r \in SetLetters, val \in SetValues :
       LET st == magsetSet(ms, r, val)
       IN  /\ ms' = st.ms
           /\ last' = [fn |-> "set", r |-> r, val |-> val, err |-> st.err,
                       before |-> ms]
  /\ UNCHANGED <<input, call, s, pc, i, ts, sign, valid, coef, ret, first, commits>>
  /\ UNCHANGED opVars
  /\ UNCHANGED par

NextMagset ==
  \/ MagsetSetCall

SpecMagset == InitUnits /\ [][NextMagset]_vars

(***************************************************************************)
(* An accumulator on its own: any sequence of appendRune calls on an       *)
(* accumulator that starts empty.                                          *)
(***************************************************************************)
MaxCoefLen == 4

\* coefficient.go 32-47: c.appendRune(r)
AppendRuneCall ==
  /\ Len(coef) < MaxCoefLen
  /\ \E r \in Alphabet :
       LET a == appendRune(coef, r)
       IN  /\ coef' = a.c
           /\ last' = [fn |-> "appendRune", r |-> r, ok |-> a.ok,
                       err |-> a.err, before |-> coef]
  /\ UNCHANGED <<input, call, s, pc, i, ts, ms, sign, valid, ret, first, commits>>
  /\ UNCHANGED opVars
  /\ UNCHANGED par

NextCoef ==
  \/ AppendRuneCall

SpecCoef == InitUnits /\ [][NextCoef]_vars

(***************************************************************************)
(* Vocabulary of the properties.                                           *)
(***************************************************************************)
\* The current call has returned a Timespan / an error.
Accepted == pc = "ret" /\ ret.err = NilErr

Rejected == pc = "ret" /\ ret.err # NilErr

MagLetters == {"Y", "M", "W", "D", "d"}

\* The category a magnitude letter denotes ('d' is read as 'D').
category(r) == IF r = "d" THEN "D" ELSE r

\* An optional sign followed by at least one digit, and nothing else.
IsCoefficient(c) ==
  LET ds == IF c # <<>> /\ c[1] \in {"-", "+"} THEN Tail(c) ELSE c
  IN  ds # <<>> /\ \A k \in 1..Len(ds) : ds[k] \in DigitChars

\* str holds a period that ends at position q: a digit, then a magnitude letter.
PeriodAt(str, q) ==
  q \in 2..Len(str) /\ str[q] \in MagLetters /\ str[q - 1] \in DigitChars

\* The value the current call committed for category c (0 if none).
committed(c) ==
  IF \E k \in 1..Len(commits) : category(commits[k].glyph) = c
  THEN commits[CHOOSE k \in 1..Len(commits) : category(commits[k].glyph) = c].value
  ELSE 0

(***************************************************************************)
(* C1.  Round trip: for every string the first call accepts, parsing the   *)
(* rendering of its result succeeds and yields the same Years, Months,     *)
(* Days and Duration.                                                      *)
(***************************************************************************)
\* C1: ParseTimespan(String(ParseTimespan(s))) succeeds and equals ParseTimespan(s).
C1_RoundTrip ==
  (call = 2 /\ pc = "ret") =>
    (ret.err = NilErr /\ ~ret.tsNil /\ Equal(ret.ts, first.ts))

(***************************************************************************)
(* C2.  Sign carry-forward: in an accepted string, after a period written  *)
(* with '-', every later period written without a sign is committed as the *)
(* negation of its digits, until a period written with '+'.                *)
(***************************************************************************)
\* C2: after an explicit '-', unsigned periods are committed negated until an explicit '+'.
C2_SignCarryForward ==
  Accepted =>
    \A j, k \in 1..Len(commits) :
      ( /\ j < k
        /\ commits[j].coef[1] = "-"
        /\ commits[k].coef[1] \notin {"-", "+"}
        /\ \A l \in (j + 1)..(k - 1) : commits[l].coef[1] # "+" )
      => commits[k].value = 0 - DigitsValue(commits[k].coef)

(***************************************************************************)
(* C3.  coefficient.value(sign) of a coefficient of an optional sign and   *)
(* at least one digit: with an explicit sign, its own signed value for     *)
(* sign +1 and for sign -1; without one, its digits' value times sign.     *)
(***************************************************************************)
expectedValue(c, sg) ==
  IF c[1] = "-" THEN 0 - DigitsValue(Tail(c))
  ELSE IF c[1] = "+" THEN DigitsValue(Tail(c))
  ELSE DigitsValue(c) * sg

\* C3: value(sign) is the coefficient's own signed value if it has a sign, else digits times sign.
C3_ValueSign ==
  /\ \A k \in 1..Len(commits) :
       commits[k].value = expectedValue(commits[k].coef, commits[k].sign)
  /\ IsCoefficient(coef) =>
       \A sg \in {1, 0 - 1} :
         value(coef, sg) = [v |-> expectedValue(coef, sg), err |-> NilErr]

\* An explicitly positive coefficient was resolved under a negative running
\* sign and kept its own sign.
C3_Witness ==
  \E j \in 1..Len(commits) :
    commits[j].sign < 0 /\ commits[j].coef[1] = "+" /\ commits[j].value > 0

(***************************************************************************)
(* C4.  A period of a later category before a period of an earlier one.    *)
(***************************************************************************)
\* The period ending at q is of a category ordered before that of a period
\* that precedes it in str.
OutOfOrderAt(str, q) ==
  /\ PeriodAt(str, q)
  /\ \E p \in 1..(q - 1) :
       /\ PeriodAt(str, p)
       /\ magIndex(category(str[q])) < magIndex(category(str[p]))

HasOutOfOrder(str) == \E q \in 1..Len(str) : OutOfOrderAt(str, q)

FirstOutOfOrder(str) ==
  CHOOSE q \in 1..Len(str) :
    OutOfOrderAt(str, q) /\ \A q2 \in 1..(q - 1) : ~OutOfOrderAt(str, q2)

\* C4 as stated: every input with a period for c2 before a period for c1 (c1 ordered before c2) fails with 'magnitude out of order'.
C4_OutOfOrderKind ==
  (call = 1 /\ pc = "ret" /\ HasOutOfOrder(input)) =>
    ret.err.errorType = "magnOutOfOrderError"

\* C4 (amended): every such input is rejected; the kind is 'magnitude out of order' when the scan reaches the first such c1 period and c1 was not committed before.
C4_OutOfOrderRejected ==
  (call = 1 /\ pc = "ret" /\ HasOutOfOrder(input)) =>
    /\ ret.err # NilErr
    /\ ret.tsNil
    /\ LET q == FirstOutOfOrder(input)
       IN  (i + 1 = q /\ ~ms[category(input[q])].isSet) =>
             ret.err.errorType = "magnOutOfOrderError"

\* An input with periods out of order was scanned up to the offending period
\* and rejected there.
C4_Witness ==
  /\ call = 1 /\ pc = "ret" /\ HasOutOfOrder(input)
  /\ i + 1 = FirstOutOfOrder(input)
  /\ ret.err.errorType = "magnOutOfOrderError"

(***************************************************************************)
(* C5.  A category specified twice.                                        *)
(***************************************************************************)
\* The period ending at q is of the category of a period that precedes it.
RestatedAt(str, q) ==
  /\ PeriodAt(str, q)
  /\ \E p \in 1..(q - 1) :
       PeriodAt(str, p) /\ category(str[q]) = category(str[p])

HasRestated(str) == \E q \in 1..Len(str) : RestatedAt(str, q)

FirstRestated(str) ==
  CHOOSE q \in 1..Len(str) :
    RestatedAt(str, q) /\ \A q2 \in 1..(q - 1) : ~RestatedAt(str, q2)

\* C5 as stated: every input that specifies a category twice fails with 'magnitude restated'.
C5_RestatedKind ==
  (call = 1 /\ pc = "ret" /\ HasRestated(input)) =>
    ret.err.errorType = "magnRestatedErr"

\* C5 (amended): every such input is rejected; the kind is 'magnitude restated' when the scan reaches the second period of the category.
C5_RestatedRejected ==
  (call = 1 /\ pc = "ret" /\ HasRestated(input)) =>
    /\ ret.err # NilErr
    /\ ret.tsNil
    /\ (i + 1 = FirstRestated(input)) => ret.err.errorType = "magnRestatedErr"

\* An input restating a category was scanned up to the second period and
\* rejected there, a later category being set as well.
C5_Witness ==
  /\ call = 1 /\ pc = "ret" /\ HasRestated(input)
  /\ i + 1 = FirstRestated(input)
  /\ ret.err.errorType = "magnRestatedErr"
  /\ laterIsSet(ms, magIndex(category(input[i + 1])) + 1)

(***************************************************************************)
(* C6.  The grammar: timespan := periods | duration | periods duration.    *)
(***************************************************************************)
\* str is a concatenation of zero or more periods.
RECURSIVE IsPeriods(_)
IsPeriods(str) ==
  \/ str = <<>>
  \/ \E k \in 2..Len(str) :
       /\ str[k] \in MagLetters
       /\ IsCoefficient(SubSeq(str, 1, k - 1))
       /\ IsPeriods(Suffix(str, k))

\* str is derivable from the grammar.
InGrammar(str) ==
  \E k \in 0..Len(str) :
    /\ IsPeriods(SubSeq(str, 1, k))
    /\ \/ k > 0 /\ k = Len(str)
       \/ k < Len(str) /\ ParseDuration(Suffix(str, k)).ok

\* C6: every accepted string consists of complete periods followed by an optional duration, with nothing left over.
C6_AcceptedInGrammar == (call = 1 /\ Accepted) => InGrammar(input)

(***************************************************************************)
(* C7.  The committed magnitude letters are in strictly decreasing order   *)
(* Y > M > W > D, each at most once.                                       *)
(***************************************************************************)
\* C7: the committed letters ('d' read as 'D') appear in strictly decreasing order, each at most once.
C7_CommittedOrder ==
  \A j, k \in 1..Len(commits) :
    j < k => magIndex(category(commits[j].glyph)) < magIndex(category(commits[k].glyph))

\* A string with three periods, one of them written with 'd' or 'D', was
\* accepted.
C7_Witness ==
  /\ Accepted
  /\ Len(commits) >= 3
  /\ category(commits[Len(commits)].glyph) = "D"

(***************************************************************************)
(* C8.  The fields derived from the registry: Years and Months as          *)
(* committed, Days the committed days plus 7 times the committed weeks.    *)
(***************************************************************************)
\* C8: Years = Y, Months = M, Days = D + 7 * W of the committed values (0 when never committed).
C8_DerivedFields ==
  (Accepted /\ ~noMagnitudeChars(s)) =>
    /\ ~ret.tsNil
    /\ ret.ts.Years = committed("Y")
    /\ ret.ts.Months = committed("M")
    /\ ret.ts.Days = committed("D") + 7 * committed("W")

\* Weeks and days were both committed, with different signs, and folded.
C8_Witness ==
  /\ Accepted
  /\ committed("W") > 0
  /\ committed("D") < 0
  /\ ret.ts.Days = 7 * committed("W") + committed("D")

(***************************************************************************)
(* C9.  An input with no magnitude letter is a time.Duration or nothing.   *)
(***************************************************************************)
\* C9: without any of Y, M, W, D, d the call succeeds exactly when the duration parser accepts the string, with all calendar fields 0, and else fails with 'bad duration'.
C9_DurationOnly ==
  (pc = "ret" /\ \A k \in 1..Len(s) : s[k] \notin MagLetters) =>
    LET d == ParseDuration(s)
    IN  IF d.ok
        THEN ret = Returned(FALSE, Timespan(0, 0, 0, d.d), NilErr)
        ELSE /\ ret.tsNil
             /\ ret.err.typ = "timespanErr"
             /\ ret.err.errorType = "badDurationErr"

\* A negative pure duration was accepted.
C9_Witness ==
  /\ call = 1 /\ Accepted
  /\ \A k \in 1..Len(input) : input[k] \notin MagLetters
  /\ ret.ts.Duration.neg
  /\ ret.ts.Years = 0 /\ ret.ts.Months = 0 /\ ret.ts.Days = 0

(***************************************************************************)
(* C10.  A duration token followed later by a magnitude period.            *)
(***************************************************************************)
\* str holds, from position p, a digit and a unit of the duration grammar.
DurationTokenAt(str, p) ==
  /\ p \in 1..Len(str)
  /\ str[p] \in DigitChars
  /\ \E u \in UnitNames :
       p + Len(u) <= Len(str) /\ SubSeq(str, p + 1, p + Len(u)) = u

DurationBeforePeriod(str) ==
  \E p, q \in 1..Len(str) :
    DurationTokenAt(str, p) /\ p + 1 < q - 1 /\ PeriodAt(str, q)

\* C10: every input in which a duration token is followed later by a magnitude period is rejected.
C10_DurationNotFinal ==
  (call = 1 /\ pc = "ret" /\ DurationBeforePeriod(input)) =>
    (ret.err # NilErr /\ ret.tsNil)

\* An input with a duration token before a period was rejected at the unit.
C10_Witness ==
  /\ call = 1 /\ Rejected /\ DurationBeforePeriod(input)
  /\ ret.err.errorType = "unrecognizedMagErr"

(***************************************************************************)
(* C11.  A string with a whitespace character anywhere is rejected.        *)
(***************************************************************************)
HasBlank(str) == \E k \in 1..Len(str) : str[k] = " "

\* C11: every string that contains a whitespace character is rejected.
C11_WhitespaceRejected ==
  (pc = "ret" /\ HasBlank(s)) => (ret.err # NilErr /\ ret.tsNil)

\* A blank reached by the scan after a committed period.
C11_Witness ==
  /\ Rejected
  /\ ~noMagnitudeChars(s)
  /\ Len(commits) > 0
  /\ i < Len(s) /\ s[i + 1] = " "

(***************************************************************************)
(* C12.  A call returns a Timespan and a nil error, or nil and an error.   *)
(***************************************************************************)
\* C12: the returned Timespan is nil exactly when the returned error is not nil.
C12_OneOutcome ==
  pc = "ret" => (ret.tsNil <=> ret.err # NilErr)

\* An error after a period was already committed to the registry.
C12_Witness ==
  Rejected /\ Len(commits) > 0 /\ ret.tsNil

(***************************************************************************)
(* C13.  Every returned error is a timespanErr of one of the error kinds;  *)
(* the untyped 'no value derived' error is never returned.                 *)
(***************************************************************************)
\* C13: every returned error is a typed timespanErr of a known kind, never 'no value derived'.
C13_TypedErrors ==
  Rejected =>
    /\ ret.err.typ = "timespanErr"
    /\ ret.err.errorType \in ErrTypes \ {"noErr"}
    /\ ret.err # NoValueError

\* A typed error raised by the scan after a committed period.
C13_Witness ==
  /\ Rejected
  /\ ~noMagnitudeChars(s)
  /\ Len(commits) > 0
  /\ ret.err = withTimespan(timespanError("misplacedSignErr"), s)

(***************************************************************************)
(* C14.  The returned error carries the string given to the call.          *)
(***************************************************************************)
\* C14 (as stated): every returned error is annotated with the input string.
C14_ErrorCarriesInput ==
  Rejected => ret.err.tsString = s

\* C14: an error of the scan carries the input string; the 'bad duration' error of a string without magnitude letters carries none.
C14_ScanErrorCarriesInput ==
  Rejected =>
    IF noMagnitudeChars(s)
    THEN ret.err.errorType = "badDurationErr" /\ ret.err.tsString = <<>>
    ELSE ret.err.errorType # "badDurationErr" /\ ret.err.tsString = s

\* An error of the scan, annotated with the string.
C14_Witness ==
  Rejected /\ ~noMagnitudeChars(s) /\ ret.err.tsString = s

(***************************************************************************)
(* C15.  The end of the scan without a derived value.                      *)
(***************************************************************************)
\* C15 (as stated): a call that reaches the end of its string without being marked valid, the empty string included, fails with 'no value derived'.
C15_NoValueDerived ==
  (pc = "ret" /\ i = Len(s) /\ ~valid) => ret.err = NoValueError

\* C15: the scan never ends without being marked valid, and the empty string fails with 'bad duration'.
C15_NoValueUnreachable ==
  /\ pc = "exit" => valid
  /\ (pc = "ret" /\ s = <<>>) =>
       ret = Returned(TRUE, ZeroTimespan, timespanError("badDurationErr"))

\* The empty string has been rejected.
C15_Witness ==
  pc = "ret" /\ s = <<>> /\ ret.err.errorType = "badDurationErr"

(***************************************************************************)
(* C16.  The 'missing coefficient' error.                                  *)
(***************************************************************************)
\* C16 (as stated): a magnitude letter or the end of the string reached with an empty accumulator fails with 'missing coefficient'.
C16_MissingCoefAtLetterOrEnd ==
  ( /\ pc = "ret"
    /\ ~noMagnitudeChars(s)
    /\ coef = <<>>
    /\ (i = Len(s) \/ s[i + 1] \in MagLetters) )
  => ret.err.errorType = "missingCoefErr"

\* C16: a magnitude letter reached with an empty accumulator fails with 'missing coefficient'; the end of the string reached with an empty accumulator is accepted.
C16_MissingCoefAtLetter ==
  (pc = "ret" /\ ~noMagnitudeChars(s) /\ coef = <<>>) =>
    /\ (i < Len(s) /\ s[i + 1] \in MagLetters) =>
         ret = Returned(TRUE, ZeroTimespan,
                        withTimespan(timespanError("missingCoefErr"), s))
    /\ i = Len(s) => (ret.err = NilErr /\ ~ret.tsNil)

\* A magnitude letter with no coefficient, after a committed period.
C16_Witness ==
  /\ Rejected
  /\ coef = <<>>
  /\ Len(commits) > 0
  /\ i < Len(s) /\ s[i + 1] \in MagLetters
  /\ ret.err.errorType = "missingCoefErr"

(***************************************************************************)
(* C17.  The 'unparseable coefficient' error.                              *)
(***************************************************************************)
\* C17 (as stated): no call fails with 'unparseable coefficient'.
C17_NeverUnparseable ==
  pc = "ret" => ret.err.errorType # "unparseableCoefErr"

\* The scan stopped at a character that ends a period.
StoppedAtTerminator ==
  /\ i < Len(s)
  /\ s[i + 1] \notin DigitChars \cup {"-", "+"}

\* C17: a scan fails with 'unparseable coefficient' exactly when a character that ends a period is reached while the accumulator holds a sign and no digit.
C17_UnparseableLoneSign ==
  (pc = "ret" /\ ~noMagnitudeChars(s)) =>
    ( ret.err.errorType = "unparseableCoefErr"
      <=> (StoppedAtTerminator /\ coef \in {<<"-">>, <<"+">>}) )

\* A magnitude letter reached while the accumulator holds only a sign.
C17_Witness ==
  /\ Rejected
  /\ coef = <<"-">>
  /\ i < Len(s) /\ s[i + 1] \in MagLetters
  /\ ret.err.errorType = "unparseableCoefErr"

(***************************************************************************)
(* C18.  Add sums the operands field by field, with no carry.              *)
(***************************************************************************)
\* The seconds and the nanoseconds of a Duration, each with its sign.
SignedSecs(d) == (IF d.neg THEN 0 - 1 ELSE 1) * (d.mag.h * 3600 + d.mag.s)

SignedNs(d) == (IF d.neg THEN 0 - 1 ELSE 1) * d.mag.ns

\* z = x + y, read off the seconds and nanoseconds of the three Durations.
DurationIsSum(x, y, z) ==
  LET ds == SignedSecs(z) - SignedSecs(x) - SignedSecs(y)
      dn == SignedNs(x) + SignedNs(y) - SignedNs(z)
  IN  \/ ds = 0 /\ dn = 0
      \/ ds = 1 /\ dn = NsPerSec
      \/ ds = 0 - 1 /\ dn = 0 - NsPerSec

\* C18: the result of Add has each field equal to the sum of the operands' fields, with no carry between fields.
C18_AddFieldwise ==
  op = "Add" =>
    LET x == heap0[recv]
        y == heap0[arg]
        z == heap[out.ptr]
    IN  /\ z.Years = x.Years + y.Years
        /\ z.Months = x.Months + y.Months
        /\ z.Days = x.Days + y.Days
        /\ DurationIsSum(x.Duration, y.Duration, z.Duration)

\* 8 months plus 9 months, and 48 hours added to a count of days.
C18_Witness ==
  /\ op = "Add"
  /\ heap0[recv].Months = 8 /\ heap0[arg].Months = 9
  /\ heap0[recv].Duration = Dur(FALSE, Mag(48, 0, 0)) /\ heap0[arg].Days = 2
  /\ heap[out.ptr].Months = 17
  /\ heap[out.ptr].Years = heap0[recv].Years + heap0[arg].Years

(***************************************************************************)
(* C19.  Add leaves its operands alone and returns a new value.            *)
(***************************************************************************)
\* C19: after Add both operands have their fields as before, and the result is a new value distinct from both.
C19_AddFrame ==
  op = "Add" =>
    /\ \A k \in 1..Len(heap0) : heap[k] = heap0[k]
    /\ out.ptr \notin 1..Len(heap0)
    /\ out.ptr \in 1..Len(heap)

\* Add of two distinct operands whose sum differs from both.
C19_Witness ==
  /\ op = "Add"
  /\ recv # arg
  /\ heap[out.ptr] # heap0[recv]
  /\ heap[out.ptr] # heap0[arg]
  /\ heap[recv] = heap0[recv] /\ heap[arg] = heap0[arg]

(***************************************************************************)
(* C20.  Equal compares the four fields.                                   *)
(***************************************************************************)
\* C20: Equal is true exactly when Years, Months, Days and Duration are pairwise equal.
C20_EqualFieldwise ==
  op = "Equal" => (out.eq <=> heap[recv] = heap[arg])

\* 2 days against 48 hours: not Equal.
C20_Witness ==
  /\ op = "Equal"
  /\ ~out.eq
  /\ heap[recv].Days = 2 /\ heap[recv].Duration = ZeroDuration
  /\ heap[arg].Days = 0 /\ heap[arg].Duration = Dur(FALSE, Mag(48, 0, 0))
  /\ heap[recv].Years = heap[arg].Years /\ heap[recv].Months = heap[arg].Months

(***************************************************************************)
(* C21.  The rendering of a Timespan.                                      *)
(***************************************************************************)
\* The rendering of one field: nothing for 0, else the number and the letter.
FieldPart(v, letter) == IF v = 0 THEN <<>> ELSE IntToStr(v) \o <<letter>>

\* The rendering of the Duration: nothing for 0.
DurationPart(d) == IF d = ZeroDuration THEN <<>> ELSE FormatDuration(d)

\* C21: String writes the non-zero fields in the order years Y, months M, days D, duration; nothing for a zero field; never the letter W.
C21_StringRendering ==
  call = 2 =>
    /\ s = FieldPart(first.ts.Years, "Y") \o FieldPart(first.ts.Months, "M")
             \o FieldPart(first.ts.Days, "D") \o DurationPart(first.ts.Duration)
    /\ \A k \in 1..Len(s) : s[k] # "W"
    /\ (first.ts = ZeroTimespan) <=> (s = <<>>)

\* Two weeks and two hours, rendered as "14D2h0m0s".
C21_Witness ==
  /\ call = 2
  /\ input = <<"2", "W", "2", "h">>
  /\ first.ts = Timespan(0, 0, 14, Dur(FALSE, Mag(2, 0, 0)))
  /\ s = <<"1", "4", "D", "2", "h", "0", "m", "0", "s">>

C30_LookaheadFindsEmptyAccumulator ==
  (pc = "exit" /\ i < Len(s)) =>
    (coef = <<>> /\ (i = 0 \/ s[i] \in MagLetters))

(***************************************************************************)
(* C23 - C26.  The registry under any sequence of set calls.               *)
(***************************************************************************)
Categories == {"Y", "M", "W", "D"}

\* The place of a category in the order Y, M, W, D.
orderRank(g) == IF g = "Y" THEN 1 ELSE IF g = "M" THEN 2 ELSE IF g = "W" THEN 3 ELSE 4

\* Some category at or after g in the order is set in the registry b.
SetAtOrAfter(b, g) ==
  \E o \in Categories : orderRank(o) >= orderRank(g) /\ b[o].isSet

\* Some category strictly after g in the order is set in the registry b.
SetAfter(b, g) ==
  \E o \in Categories : orderRank(o) > orderRank(g) /\ b[o].isSet

\* C23: set(c, v) succeeds exactly when c is a magnitude letter with no category at or after it already set; it then stores v, which get returns; a category never set reads 0.
C23_SetAndGet ==
  last.fn = "set" =>
    LET c == category(last.r)
    IN  /\ (last.err = NilErr)
             <=> (last.r \in MagLetters /\ ~SetAtOrAfter(last.before, c))
        /\ last.err = NilErr =>
             /\ ms[c] = [isSet |-> TRUE, value |-> last.val]
             /\ magsetGet(ms, c) = last.val
             /\ \A g \in Categories \ {c} : ms[g] = last.before[g]
        /\ \A g \in Categories : ~ms[g].isSet => magsetGet(ms, g) = 0

\* 'd' set to a non-zero value after Y, with W never set.
C23_Witness ==
  /\ last.fn = "set"
  /\ last.r = "d"
  /\ last.err = NilErr
  /\ last.before["Y"].isSet
  /\ ms["D"] = [isSet |-> TRUE, value |-> 2]
  /\ ~ms["W"].isSet

\* C24: a failing set reports 'unrecognized magnitude' for a letter outside the registry, else 'magnitude restated' for a category already set, else 'magnitude out of order'.
C24_ErrorPrecedence ==
  (last.fn = "set" /\ last.err # NilErr) =>
    LET c == category(last.r)
    IN  last.err.errorType =
          IF last.r \notin MagLetters THEN "unrecognizedMagErr"
          ELSE IF last.before[c].isSet THEN "magnRestatedErr"
          ELSE "magnOutOfOrderError"

\* A category set again while a later category is set as well.
C24_Witness ==
  /\ last.fn = "set"
  /\ last.r \in MagLetters
  /\ last.before[category(last.r)].isSet
  /\ SetAfter(last.before, category(last.r))
  /\ last.err.errorType = "magnRestatedErr"

\* C25: no set call returns 'indeterminate order'.
C25_NeverIndeterminateOrder ==
  last.fn = "set" => last.err.errorType # "magnOrderUnkownErr"

\* Each of the four categories has been set by some call.
C25_Witness ==
  /\ last.fn = "set"
  /\ last.r = "d"
  /\ last.err = NilErr
  /\ \A g \in Categories : ms[g].isSet

\* C26: a set call that returns an error leaves every entry of the registry as it was.
C26_FailedSetFrame ==
  (last.fn = "set" /\ last.err # NilErr) => ms = last.before

\* A restatement with another value: the stored value is the earlier one.
C26_Witness ==
  /\ last.fn = "set"
  /\ last.err.errorType = "magnRestatedErr"
  /\ ms[category(last.r)].value # last.val
  /\ ms = last.before

(***************************************************************************)
(* C27, C28.  The accumulator under any sequence of appendRune calls.      *)
(***************************************************************************)
Signs == {"-", "+"}

\* C27: the accumulated characters are an optional sign at the first position followed only by digits.
C27_SignOnlyFirst ==
  \A k \in 1..Len(coef) :
    /\ coef[k] \in DigitChars \cup Signs
    /\ coef[k] \in Signs => k = 1

\* A sign refused by an accumulator that begins with a sign and holds digits.
C27_Witness ==
  /\ last.fn = "appendRune"
  /\ last.r \in Signs
  /\ ~last.ok
  /\ Len(coef) >= 2
  /\ coef[1] \in Signs

\* C28: a sign offered to a non-empty accumulator is refused with 'misplaced sign', any other non-digit is refused without error, both leaving the accumulator as it was; a digit is always appended.
C28_AppendRuneOutcome ==
  last.fn = "appendRune" =>
    IF last.r \in DigitChars \/ (last.r \in Signs /\ last.before = <<>>)
    THEN last.ok /\ last.err = NilErr /\ coef = Append(last.before, last.r)
    ELSE IF last.r \in Signs
    THEN /\ ~last.ok
         /\ last.err = timespanError("misplacedSignErr")
         /\ coef = last.before
    ELSE ~last.ok /\ last.err = NilErr /\ coef = last.before

\* A sign refused by a non-empty accumulator, which is left as it was.
C28_Witness ==
  /\ last.fn = "appendRune"
  /\ last.r \in Signs
  /\ last.before # <<>>
  /\ ~last.ok
  /\ last.err.errorType = "misplacedSignErr"
  /\ coef = last.before

(***************************************************************************)
(* C22.  Two calls in progress at once.                                    *)
(***************************************************************************)
\* What the call with locals L returns when it takes all its steps alone.
RECURSIVE runAlone(_, _)
runAlone(L, h) ==
  IF L.pc = "ret" THEN L.ret
  ELSE LET st == parStep(L, h) IN runAlone(st.loc, st.regs)

parseAlone(str) == runAlone(newLocal(str), <<>>)

\* C22: a call whose steps are interleaved with those of another call returns what it returns when run alone.
C22_NoSharedState ==
  \A p \in 1..Len(par.proc) :
    par.proc[p].pc = "ret" => par.proc[p].ret = parseAlone(par.proc[p].s)

\* The first call has returned Years = 2 while the second, not yet returned, has committed another value for the same category.
C22_Witness ==
  /\ par # NoPar
  /\ par.proc[1].pc = "ret"
  /\ par.proc[1].ret.err = NilErr
  /\ par.proc[1].ret.ts.Years = 2
  /\ par.proc[2].pc \in {"loop", "exit"}
  /\ par.proc[2].i > 0
  /\ par.regs[par.proc[2].ms]["Y"] = [isSet |-> TRUE, value |-> 0 - 2]
  /\ par.regs[par.proc[1].ms]["Y"] = [isSet |-> TRUE, value |-> 2]

(***************************************************************************)
(* C31.  The coefficient is resolved before the registry is consulted.     *)
(***************************************************************************)
\* The entry of category g in a registry that holds exactly the commits made.
entryOfCommits(g) ==
  IF \E k \in 1..Len(commits) : category(commits[k].glyph) = g
  THEN [isSet |-> TRUE, value |-> committed(g)]
  ELSE [isSet |-> FALSE, value |-> 0]

\* C31: at a rejected character with an empty or unparseable accumulator the parse fails with the coefficient error and the registry is left as it was, whatever the character is.
C31_CoefficientBeforeRegistry ==
  ( /\ pc = "ret"
    /\ ~noMagnitudeChars(s)
    /\ StoppedAtTerminator
    /\ ~IsCoefficient(coef) )
  => /\ ret = Returned(TRUE, ZeroTimespan,
                       withTimespan(timespanError(IF coef = <<>>
                                                  THEN "missingCoefErr"
                                                  ELSE "unparseableCoefErr"), s))
     /\ \A g \in Categories : ms[g] = entryOfCommits(g)

\* A character outside the registry, with no coefficient, after a committed period: 'missing coefficient'.
C31_Witness ==
  /\ Rejected
  /\ Len(commits) > 0
  /\ i < Len(s) /\ s[i + 1] \notin MagLetters \cup DigitChars \cup Signs
  /\ coef = <<>>
  /\ ret.err.errorType = "missingCoefErr"

(***************************************************************************)
(* C32.  The running sign and the duration.                                *)
(***************************************************************************)
\* C32: in a string accepted with a duration suffix the Duration is what the duration parser gives for the suffix, whatever the running sign.
C32_DurationKeepsItsSign ==
  (Accepted /\ ~noMagnitudeChars(s)) =>
    ret.ts.Duration = IF i < Len(s) THEN ParseDuration(Suffix(s, i)).d
                      ELSE ZeroDuration

\* "-2Y2h": Years = -2 and Duration = +2h.
C32_Witness ==
  /\ Accepted
  /\ sign < 0
  /\ i < Len(s)
  /\ ret.ts.Years = 0 - 2
  /\ ret.ts.Duration = Dur(FALSE, Mag(2, 0, 0))

(***************************************************************************)
(* C33.  The round trip of a value whose periods have one sign.            *)
(***************************************************************************)
\* Years, Months and Days are all non-negative or all non-positive.
periodsOneSign(tsv) ==
  \/ tsv.Years >= 0 /\ tsv.Months >= 0 /\ tsv.Days >= 0
  \/ tsv.Years <= 0 /\ tsv.Months <= 0 /\ tsv.Days <= 0

\* C33: the rendering of a Timespan value that is not all-zero and whose Years, Months and Days have one sign is parsed without error to a Timespan Equal to the value.
C33_RoundTripOneSign ==
  ( /\ pc = "ret"
    /\ first.ts # ZeroTimespan
    /\ periodsOneSign(first.ts) )
  => /\ ret.err = NilErr
     /\ ~ret.tsNil
     /\ Equal(ret.ts, first.ts)

\* "-2Y-1M-15D48h0m0s": negative periods and a positive duration, parsed back to the same value.
C33_Witness ==
  /\ pc = "ret"
  /\ first.ts = Timespan(0 - 2, 0 - 1, 0 - 15, Dur(FALSE, Mag(48, 0, 0)))
  /\ s = <<"-", "2", "Y", "-", "1", "M", "-", "1", "5", "D",
           "4", "8", "h", "0", "m", "0", "s">>
  /\ ret.err = NilErr
  /\ Equal(ret.ts, first.ts)

(***************************************************************************)
(* C34.  Every call terminates after one pass over its string.             *)
(***************************************************************************)
\* C34: every call returns; the scan moves forward one position per iteration and never past the end of the string.
C34_Terminates ==
  /\ [](i <= Len(s) /\ (pc = "loop" => i < Len(s)))
  /\ [][pc = "loop" => \/ i' = i + 1 /\ pc' \in {"loop", "exit"}
                       \/ i' = i /\ pc' \in {"exit", "ret"}]_vars
  /\ (pc = "entry") ~> (pc = "ret")

\* A string of four characters scanned to its end and accepted.
C34_Witness ==
  /\ Accepted
  /\ ~noMagnitudeChars(s)
  /\ Len(s) >= 4
  /\ i = Len(s)

====
